---- MODULE Spec2Model ----
(***************************************************************************)
(* Model of price-tracking-bot: the exchange-rate client (fiat.py,         *)
(* CurrencyRates), the currency metadata resolver (fiat.py, CurrencyCodes) *)
(* and the Telegram command handlers (price_bot.py).                       *)
(*                                                                         *)
(* The program keeps very little state between operations: the client      *)
(* object (force_decimal flag, API key read at construction) and the       *)
(* resolver's lazily loaded dataset.  The remaining variables record the   *)
(* most recent operation: its arguments, the HTTP requests it issued, what *)
(* it returned or raised, and what a handler sent to the chat.             *)
(***************************************************************************)
EXTENDS Integers, Sequences, FiniteSets, TLC

VARIABLES
    env,        \* value of EXCHANGE_RATE_API_KEY in the process environment
    client,     \* the CurrencyRates instance (or none yet)
    op,         \* the most recent operation and its arguments
    res,        \* what that operation did at the Rate Client level
    chat,       \* what that operation did at the handler level
    file,       \* contents of raw_data/currencies.json on disk
    cache,      \* CurrencyCodes.__currency_data
    reads,      \* number of times the dataset file has been opened
    loads,      \* number of times a read stored a record sequence in the cache
    look        \* the most recent resolver lookup and its result

vars == <<env, client, op, res, chat, file, cache, reads, loads, look>>
rateVars == <<env, client, op, res, chat>>
codeVars == <<file, cache, reads, loads, look>>

(***************************************************************************)
(* Python values.  A number is num/den tagged with its Python type; the    *)
(* values used here are small dyadic rationals, which int, float and       *)
(* Decimal all represent exactly, so float(x), Decimal(x) and the products *)
(* below change the type tag and keep the numeric value.                   *)
(***************************************************************************)
PyVal(k, n, d, its) == [kind |-> k, num |-> n, den |-> d, items |-> its]
PyNone == PyVal("none", 0, 1, <<>>)
PyInt(n) == PyVal("int", n, 1, <<>>)
PyFloat(n, d) == PyVal("float", n, d, <<>>)
PyDecimal(n, d) == PyVal("decimal", n, d, <<>>)
PyStr == PyVal("str", 0, 1, <<>>)               \* the empty string
PyDict(its) == PyVal("dict", 0, 1, its)         \* items in insertion order

IsNumber(v) == v.kind \in {"int", "float", "decimal"}
NumEq(a, b) == a.num * b.den = b.num * a.den

\* variant of Truthy: `rate is not None` in place of Python truthiness
TruthyNotNone(v) == v.kind # "none"

\* Python truthiness: `not rate`
Truthy(v) ==
    CASE IsNumber(v) -> v.num # 0
      [] v.kind = "dict" -> Len(v.items) > 0
      [] OTHER -> FALSE

\* isinstance(amount, Decimal)
IsDecimal(v) == v.kind = "decimal"

\* Decimal(amount), float(amount)
ToDecimal(v) == PyDecimal(v.num, v.den)
ToFloat(v) == PyFloat(v.num, v.den)

\* rate * amount: Decimal and float do not mix (TypeError); int mixes with both
Mul(a, b) ==
    LET mixed == {a.kind, b.kind} = {"decimal", "float"}
        k == IF "decimal" \in {a.kind, b.kind} THEN "decimal"
             ELSE IF "float" \in {a.kind, b.kind} THEN "float" ELSE "int"
    IN  [typeError |-> mixed,
         val |-> IF mixed THEN PyNone ELSE PyVal(k, a.num * b.num, a.den * b.den, <<>>)]

(***************************************************************************)
(* JSON text of a response body and its decoding.  A number literal is     *)
(* either an integer literal ("1") or a real literal ("1.0", "0.5").       *)
(* json.loads(text, use_decimal=True) parses real literals as Decimal and  *)
(* integer literals as int; response.json() parses real literals as float  *)
(* and integer literals as int.                                            *)
(***************************************************************************)
Json(t, n, d, its) == [t |-> t, num |-> n, den |-> d, items |-> its]
JsonNull == Json("null", 0, 1, <<>>)
JsonEmptyString == Json("string", 0, 1, <<>>)
JsonInt(n) == Json("int", n, 1, <<>>)
JsonReal(n, d) == Json("real", n, d, <<>>)
JsonObject(its) == Json("object", 0, 1, its)    \* items: <<key, number literal>>

ParseScalar(j, use_decimal) ==
    CASE j.t = "null" -> PyNone
      [] j.t = "string" -> PyStr
      [] j.t = "int" -> PyInt(j.num)
      [] j.t = "real" -> IF use_decimal THEN PyDecimal(j.num, j.den)
                         ELSE PyFloat(j.num, j.den)
      [] OTHER -> PyNone

JsonParse(j, use_decimal) ==
    IF j.t = "object"
    THEN PyDict([i \in 1..Len(j.items) |->
                    <<j.items[i][1], ParseScalar(j.items[i][2], use_decimal)>>])
    ELSE ParseScalar(j, use_decimal)

(***************************************************************************)
(* Inputs: currency codes, amounts, environment values and the responses   *)
(* the exchange-rate API may give.                                         *)
(***************************************************************************)
MaxRates == 3       \* most entries in a conversion_rates mapping

Unset == "<unset>"                  \* os.getenv(...) is None
EnvValues == {Unset, "key"}
CurrencyArgs == {"USD", "EUR"}
RateCodes == {"TWD", "EUR", "XYZ", "USD"}
Amounts == {PyFloat(5, 2), PyFloat(3, 1), PyDecimal(5, 2), PyInt(3)}

RateLiterals ==
    {JsonNull, JsonEmptyString, JsonObject(<<>>), JsonInt(0), JsonReal(0, 1),
     JsonInt(1), JsonInt(3), JsonReal(1, 2), JsonReal(3, 2)}

\* the literal the API gives for each code of a conversion_rates mapping
RateOf(code) ==
    CASE code = "TWD" -> JsonReal(63, 2)
      [] code = "EUR" -> JsonReal(1, 2)
      [] code = "XYZ" -> JsonInt(5)
      [] OTHER -> JsonInt(1)

DistinctSeqs(S, n) ==
    UNION {{s \in [1..k -> S] : \A i, j \in 1..k : i # j => s[i] # s[j]} : k \in 0..n}

RateTables ==
    {JsonObject([i \in 1..Len(s) |-> <<s[i], RateOf(s[i])>>]) :
        s \in DistinctSeqs(RateCodes, MaxRates)}

Body(valid, fields, rate, rates) ==
    [valid |-> valid, fields |-> fields,
     conversion_rate |-> rate, conversion_rates |-> rates]
ErrorBody == Body(TRUE, {}, JsonNull, JsonNull)         \* {"result": "error"}
InvalidBody == Body(FALSE, {}, JsonNull, JsonNull)      \* not JSON
PairBodies ==
    {Body(TRUE, {"conversion_rate"}, r, JsonNull) : r \in RateLiterals}
        \cup {ErrorBody, InvalidBody}
LatestBodies ==
    {Body(TRUE, {"conversion_rates"}, JsonNull, t) : t \in RateTables}
        \cup {ErrorBody, InvalidBody}

Statuses == {200, 201, 204, 404, 500}
Response(tr, st, b) == [transport |-> tr, status |-> st, body |-> b]
NoResponse == Response("none", 0, ErrorBody)
TransportError == Response("error", 0, ErrorBody)        \* requests.get raised
Responses(bodies, good) ==
    {TransportError}
        \cup {Response("ok", 200, b) : b \in bodies}
        \cup {Response("ok", st, b) : st \in Statuses \ {200}, b \in {good, ErrorBody}}
PairResponses ==
    Responses(PairBodies, Body(TRUE, {"conversion_rate"}, JsonReal(3, 2), JsonNull))
LatestResponses ==
    Responses(LatestBodies,
        Body(TRUE, {"conversion_rates"}, JsonNull,
             JsonObject(<<<<"EUR", RateOf("EUR")>>>>)))

(***************************************************************************)
(* The Rate Client (fiat.py: Common, CurrencyRates).  Each operation is a  *)
(* function of the client, its arguments and the response the API gives to *)
(* the request (if one is sent); it yields the requests sent, the decoding *)
(* done and the value returned or the exception raised.                    *)
(***************************************************************************)
Client(exists, force_decimal, api_key) ==
    [exists |-> exists, force_decimal |-> force_decimal, api_key |-> api_key]
NoClient == Client(FALSE, FALSE, Unset)

timeout == 5
Request(cl, endpoint, base_cur, dest_cur) ==
    [api_key |-> cl.api_key, endpoint |-> endpoint, base_cur |-> base_cur,
     dest_cur |-> dest_cur, timeout |-> timeout]

Result(sent, resp, mode, rate, kind, exc, msg, value) ==
    [sent |-> sent, response |-> resp, mode |-> mode, rate |-> rate,
     kind |-> kind, exc |-> exc, msg |-> msg, value |-> value]
NoResult == Result(<<>>, NoResponse, "none", PyNone, "none", "", <<>>, PyNone)
Return(sent, resp, mode, rate, value) ==
    Result(sent, resp, mode, rate, "return", "", <<>>, value)
Raise(sent, resp, mode, rate, exc, msg) ==
    Result(sent, resp, mode, rate, "raise", exc, msg, PyNone)

SourceNotReady == <<"Currency Rates Source Not Ready">>

\* variant of Common__init__: the missing key is not checked
Common__init__NoCheck(force_decimal, api_key) ==
    [client |-> Client(TRUE, force_decimal, api_key),
     result |-> Return(<<>>, NoResponse, "none", PyNone, PyNone)]

\* Common.__init__: the client it builds, or APIKeyNotFoundError
Common__init__(force_decimal, api_key) ==
    IF api_key = Unset
    THEN [client |-> NoClient,
          result |-> Raise(<<>>, NoResponse, "none", PyNone,
                           "APIKeyNotFoundError", <<"API Key not found">>)]
    ELSE [client |-> Client(TRUE, force_decimal, api_key),
          result |-> Return(<<>>, NoResponse, "none", PyNone, PyNone)]

\* variant of StatusOk: any 2xx status counts as success
StatusOk2xx(status) == status \in 200..299

\* response.status_code == 200
StatusOk(status) == status = 200

\* Common._get_decoded_data
get_decoded_data(cl, response, key, use_decimal) ==
    LET dec == cl.force_decimal \/ use_decimal
    IN  [mode |-> IF dec THEN "decimal" ELSE "float",
         jsonError |-> ~response.body.valid,
         val |-> IF ~response.body.valid THEN PyNone
                 ELSE IF key \in response.body.fields
                      THEN JsonParse(response.body[key], dec)
                      ELSE PyDict(<<>>)]

\* CurrencyRates.get_rates
get_rates(cl, base_cur, response) ==
    LET sent == <<Request(cl, "latest", base_cur, "")>>
        d == get_decoded_data(cl, response, "conversion_rates", FALSE)
    IN  IF response.transport # "ok"
        THEN Raise(sent, response, "none", PyNone, "RequestException", <<>>)
        ELSE IF StatusOk(response.status)
        THEN IF d.jsonError
             THEN Raise(sent, response, d.mode, PyNone, "JSONDecodeError", <<>>)
             ELSE Return(sent, response, d.mode, d.val, d.val)
        ELSE Raise(sent, response, "none", PyNone, "RatesNotAvailableError",
                   SourceNotReady)

\* variant of SameCurrencyRate: force_decimal is ignored
SameCurrencyRateFloat(cl) == PyFloat(1, 1)

\* get_rate with base_cur == dest_cur: Decimal(1) or 1.
SameCurrencyRate(cl) ==
    IF cl.force_decimal THEN PyDecimal(1, 1) ELSE PyFloat(1, 1)

\* CurrencyRates.get_rate
get_rate(cl, base_cur, dest_cur, response) ==
    LET sent == <<Request(cl, "pair", base_cur, dest_cur)>>
        d == get_decoded_data(cl, response, "conversion_rate", FALSE)
    IN  IF base_cur = dest_cur
        THEN Return(<<>>, NoResponse, "none", PyNone, SameCurrencyRate(cl))
        ELSE IF response.transport # "ok"
        THEN Raise(sent, response, "none", PyNone, "RequestException", <<>>)
        ELSE IF StatusOk(response.status)
        THEN IF d.jsonError
             THEN Raise(sent, response, d.mode, PyNone, "JSONDecodeError", <<>>)
             ELSE IF ~Truthy(d.val)
             THEN Raise(sent, response, d.mode, d.val, "RatesNotAvailableError",
                        <<"Currency Rate ", base_cur, " => ", dest_cur,
                          " not available">>)
             ELSE Return(sent, response, d.mode, d.val, d.val)
        ELSE Raise(sent, response, "none", PyNone, "RatesNotAvailableError",
                   SourceNotReady)

\* variant of UseDecimal: the type of amount is ignored
UseDecimalForceOnly(cl, amount) == cl.force_decimal

\* the numeric mode of a convert call
UseDecimal(cl, amount) ==
    IF IsDecimal(amount) THEN TRUE ELSE cl.force_decimal

\* CurrencyRates.convert
convert(cl, base_cur, dest_cur, amount, response) ==
    LET use_decimal == UseDecimal(cl, amount)
        sent == <<Request(cl, "pair", base_cur, dest_cur)>>
        d == get_decoded_data(cl, response, "conversion_rate", use_decimal)
        m == Mul(d.val, amount)
    IN  IF base_cur = dest_cur
        THEN Return(<<>>, NoResponse, "none", PyNone,
                    IF use_decimal THEN ToDecimal(amount) ELSE ToFloat(amount))
        ELSE IF response.transport # "ok"
        THEN Raise(sent, response, "none", PyNone, "RequestException", <<>>)
        ELSE IF StatusOk(response.status)
        THEN IF d.jsonError
             THEN Raise(sent, response, d.mode, PyNone, "JSONDecodeError", <<>>)
             ELSE IF ~Truthy(d.val)
             THEN Raise(sent, response, d.mode, d.val, "RatesNotAvailableError",
                        <<"Currency ", base_cur, " => ", dest_cur,
                          " rate not available.">>)
             ELSE IF m.typeError
             THEN Raise(sent, response, d.mode, d.val, "DecimalFloatMismatchError",
                        <<"convert requires amount parameter is of type Decimal when force_decimal=True">>)
             ELSE Return(sent, response, d.mode, d.val, m.val)
        ELSE Raise(sent, response, "none", PyNone, "RatesNotAvailableError",
                   SourceNotReady)

(***************************************************************************)
(* The command handlers (price_bot.py).  They use the module-level client  *)
(* c = CurrencyRates(), built with the default force_decimal=False.  A     *)
(* handler yields what the client did (res) and what reached the chat or   *)
(* left the handler as an exception (chat).                                *)
(***************************************************************************)
\* variant of selected_symbols: one code left out
selected_symbols_short == {"TWD", "CNY", "USD", "JPY", "GBP", "KRW"}

selected_symbols == {"TWD", "CNY", "EUR", "USD", "JPY", "GBP", "KRW"}

Message(kind, base_cur, dest_cur, rate, lines) ==
    [kind |-> kind, base_cur |-> base_cur, dest_cur |-> dest_cur,
     rate |-> rate, lines |-> lines]
Chat(handler, sent, exc, msg) ==
    [handler |-> handler, sent |-> sent, exc |-> exc, msg |-> msg]
NoChat == Chat("none", <<>>, "", <<>>)

\* variant of Propagate: the handler catches the exception and replies
CatchAndReply(handler, r) ==
    Chat(handler, <<Message("error", "", "", PyNone, <<>>)>>, "", <<>>)

\* no handler has a try/except: an exception of the client leaves the handler
\* as it is, before send_message is reached
Propagate(handler, r) == Chat(handler, <<>>, r.exc, r.msg)

ArgAt(args, i) == IF i <= Len(args) THEN args[i] ELSE ""

ArgLists == UNION {[1..k -> CurrencyArgs] : k \in 0..2}

\* start
start(args) ==
    [res |-> NoResult,
     chat |-> Chat("start", <<Message("intro", "", "", PyNone, <<>>)>>, "", <<>>)]

\* pair
pair(cl, args, response) ==
    LET r == get_rate(cl, args[1], args[2], response)
    IN  IF Len(args) < 2
        THEN [res |-> NoResult, chat |-> Chat("pair", <<>>, "IndexError", <<>>)]
        ELSE IF r.kind = "raise"
        THEN [res |-> r, chat |-> Propagate("pair", r)]
        ELSE [res |-> r,
              chat |-> Chat("pair",
                            <<Message("pair", args[1], args[2], r.value, <<>>)>>,
                            "", <<>>)]

\* the loop of base: one line per item whose symbol is selected, in items() order
RECURSIVE ResponseLines(_, _, _)
ResponseLines(items, i, response) ==
    IF i > Len(items) THEN response
    ELSE ResponseLines(items, i + 1,
            IF items[i][1] \in selected_symbols
            THEN Append(response, items[i])
            ELSE response)

\* base
base(cl, args, response) ==
    LET r == get_rates(cl, args[1], response)
    IN  IF Len(args) < 1
        THEN [res |-> NoResult, chat |-> Chat("base", <<>>, "IndexError", <<>>)]
        ELSE IF r.kind = "raise"
        THEN [res |-> r, chat |-> Propagate("base", r)]
        ELSE [res |-> r,
              chat |-> Chat("base",
                            <<Message("base", args[1], "", PyNone,
                                      ResponseLines(r.value.items, 1, <<>>))>>,
                            "", <<>>)]

(***************************************************************************)
(* The Currency Metadata Resolver (fiat.py: CurrencyCodes).  The dataset   *)
(* file is a JSON array of records; it may also be missing, not JSON, or   *)
(* hold the JSON value null.                                               *)
(***************************************************************************)
MaxLen == 2         \* most records in a dataset file
MaxReads == 2       \* lookups stop once the file has been opened this often

Record(cc, symbol, name) == [cc |-> cc, symbol |-> symbol, name |-> name]
Records ==
    {Record("USD", "$", "US Dollar"),
     Record("USD", "US$", "United States Dollar"),
     Record("CAD", "$", "Canadian Dollar")}
Keys == {"USD", "ZZZ", "$", "US$"}

File(state, records) == [state |-> state, records |-> records]
Datasets == UNION {[1..k -> Records] : k \in 0..MaxLen}
Files ==
    {File("missing", <<>>), File("malformed", <<>>), File("null", <<>>)}
        \cup {File("array", d) : d \in Datasets}
BundledFile == File("array", <<Record("USD", "$", "US Dollar")>>)

Cache(loaded, records) == [loaded |-> loaded, records |-> records]
EmptyCache == Cache(FALSE, <<>>)                \* __currency_data is None

Look(name, key, raised, found, value, read) ==
    [name |-> name, key |-> key, raised |-> raised, found |-> found,
     value |-> value, read |-> read]
NoLook == Look("none", "", FALSE, FALSE, "", FALSE)

\* variant of NeedsLoad: `not self.__currency_data` (an empty list loads again)
NeedsLoadFalsy(c) == ~c.loaded \/ Len(c.records) = 0

\* self.__currency_data is None
NeedsLoad(c) == ~c.loaded

\* CurrencyCodes._currency_data: the cache after the access, whether the file
\* was opened, whether the access (or the iteration that follows) fails
currency_data(c, f) ==
    IF NeedsLoad(c)
    THEN CASE f.state = "array" ->
                [cache |-> Cache(TRUE, f.records), read |-> TRUE, raised |-> FALSE]
           [] f.state = "null" ->
                [cache |-> EmptyCache, read |-> TRUE, raised |-> TRUE]
           [] OTHER ->
                [cache |-> c, read |-> TRUE, raised |-> TRUE]
    ELSE [cache |-> c, read |-> FALSE, raised |-> FALSE]

\* variant of NextItem: the last matching item
NextItemLast(data, field, key, i) ==
    LET m == {j \in i..Len(data) : data[j][field] = key}
    IN  IF m = {} THEN 0 ELSE CHOOSE j \in m : \A k \in m : k <= j

\* next((item for item in data if item[field] == key), None), as an index (0: None)
RECURSIVE NextItem(_, _, _, _)
NextItem(data, field, key, i) ==
    IF i > Len(data) THEN 0
    ELSE IF data[i][field] = key THEN i
    ELSE NextItem(data, field, key, i + 1)

\* CurrencyCodes._get_data
get_data(data, currency_code) == NextItem(data, "cc", currency_code, 1)

\* CurrencyCodes._get_data_from_symbol
get_data_from_symbol(data, symbol) == NextItem(data, "symbol", symbol, 1)

\* CurrencyCodes.get_symbol
get_symbol(c, f, currency_code) ==
    LET a == currency_data(c, f)
        i == get_data(a.cache.records, currency_code)
    IN  [cache |-> a.cache,
         look |-> IF a.raised
                  THEN Look("get_symbol", currency_code, TRUE, FALSE, "", a.read)
                  ELSE IF i # 0
                  THEN Look("get_symbol", currency_code, FALSE, TRUE,
                            a.cache.records[i].symbol, a.read)
                  ELSE Look("get_symbol", currency_code, FALSE, FALSE, "", a.read)]

\* CurrencyCodes.get_currency_name
get_currency_name(c, f, currency_code) ==
    LET a == currency_data(c, f)
        i == get_data(a.cache.records, currency_code)
    IN  [cache |-> a.cache,
         look |-> IF a.raised
                  THEN Look("get_currency_name", currency_code, TRUE, FALSE, "", a.read)
                  ELSE IF i # 0
                  THEN Look("get_currency_name", currency_code, FALSE, TRUE,
                            a.cache.records[i].name, a.read)
                  ELSE Look("get_currency_name", currency_code, FALSE, FALSE, "",
                            a.read)]

\* CurrencyCodes.get_currency_code_from_symbol
get_currency_code_from_symbol(c, f, symbol) ==
    LET a == currency_data(c, f)
        i == get_data_from_symbol(a.cache.records, symbol)
    IN  [cache |-> a.cache,
         look |-> IF a.raised
                  THEN Look("get_currency_code_from_symbol", symbol, TRUE, FALSE, "",
                            a.read)
                  ELSE IF i # 0
                  THEN Look("get_currency_code_from_symbol", symbol, FALSE, TRUE,
                            a.cache.records[i].cc, a.read)
                  ELSE Look("get_currency_code_from_symbol", symbol, FALSE, FALSE, "",
                            a.read)]


(***************************************************************************)
(* State machine of the Rate Client and the handlers.                      *)
(***************************************************************************)
\* args: a handler's context.args; for the constructor, the value os.getenv gave
Op(name, base_cur, dest_cur, amount, args) ==
    [name |-> name, base_cur |-> base_cur, dest_cur |-> dest_cur,
     amount |-> amount, args |-> args]
NoOp == Op("none", "", "", PyNone, <<>>)

Init ==
    /\ env = Unset
    /\ client = NoClient
    /\ op = NoOp
    /\ res = NoResult
    /\ chat = NoChat
    /\ file = BundledFile
    /\ cache = EmptyCache
    /\ reads = 0
    /\ loads = 0
    /\ look = NoLook

\* the environment variable is set or unset from outside
SetEnv ==
    /\ \E v \in EnvValues : env' = v
    /\ UNCHANGED <<client, op, res, chat>>
    /\ UNCHANGED codeVars

\* CurrencyRates(force_decimal): the process builds its client once
Construct ==
    /\ ~client.exists
    /\ \E fd \in BOOLEAN :
        LET r == Common__init__(fd, env)
        IN  /\ client' = r.client
            /\ op' = Op("construct", "", "", PyNone, <<env>>)
            /\ res' = r.result
            /\ chat' = NoChat
    /\ UNCHANGED env
    /\ UNCHANGED codeVars

GetRates ==
    /\ client.exists
    /\ \E b \in CurrencyArgs, resp \in LatestResponses :
        /\ op' = Op("get_rates", b, "", PyNone, <<>>)
        /\ res' = get_rates(client, b, resp)
    /\ chat' = NoChat
    /\ UNCHANGED <<env, client>>
    /\ UNCHANGED codeVars

GetRate ==
    /\ client.exists
    /\ \E b \in CurrencyArgs, d \in CurrencyArgs, resp \in PairResponses :
        /\ op' = Op("get_rate", b, d, PyNone, <<>>)
        /\ res' = get_rate(client, b, d, resp)
    /\ chat' = NoChat
    /\ UNCHANGED <<env, client>>
    /\ UNCHANGED codeVars

Convert ==
    /\ client.exists
    /\ \E b \in CurrencyArgs, d \in CurrencyArgs, a \in Amounts,
          resp \in PairResponses :
        /\ op' = Op("convert", b, d, a, <<>>)
        /\ res' = convert(client, b, d, a, resp)
    /\ chat' = NoChat
    /\ UNCHANGED <<env, client>>
    /\ UNCHANGED codeVars

\* the handlers run against c = CurrencyRates(), force_decimal False
HandlerClient == client.exists /\ ~client.force_decimal

StartCmd ==
    /\ HandlerClient
    /\ \E args \in ArgLists :
        LET h == start(args)
        IN  /\ op' = Op("/start", "", "", PyNone, args)
            /\ res' = h.res
            /\ chat' = h.chat
    /\ UNCHANGED <<env, client>>
    /\ UNCHANGED codeVars

PairCmd ==
    /\ HandlerClient
    /\ \E args \in ArgLists, resp \in PairResponses :
        LET h == pair(client, args, resp)
        IN  /\ op' = Op("/pair", ArgAt(args, 1), ArgAt(args, 2), PyNone, args)
            /\ res' = h.res
            /\ chat' = h.chat
    /\ UNCHANGED <<env, client>>
    /\ UNCHANGED codeVars

BaseCmd ==
    /\ HandlerClient
    /\ \E args \in ArgLists, resp \in LatestResponses :
        LET h == base(client, args, resp)
        IN  /\ op' = Op("/base", ArgAt(args, 1), "", PyNone, args)
            /\ res' = h.res
            /\ chat' = h.chat
    /\ UNCHANGED <<env, client>>
    /\ UNCHANGED codeVars

Next ==
    \/ SetEnv
    \/ Construct
    \/ GetRates
    \/ GetRate
    \/ Convert
    \/ StartCmd
    \/ PairCmd
    \/ BaseCmd

Spec == Init /\ [][Next]_vars

(***************************************************************************)
(* State machine of the resolver _CURRENCY_CODES = CurrencyCodes().        *)
(***************************************************************************)
\* the dataset file is replaced, removed or damaged from outside
FileChange ==
    /\ \E f \in Files : file' = f
    /\ UNCHANGED <<cache, reads, loads, look>>
    /\ UNCHANGED rateVars

Lookup(r) ==
    /\ cache.loaded \/ reads < MaxReads
    /\ cache' = r.cache
    /\ look' = r.look
    /\ reads' = IF r.look.read THEN reads + 1 ELSE reads
    /\ loads' = IF r.look.read /\ r.cache.loaded THEN loads + 1 ELSE loads
    /\ UNCHANGED file
    /\ UNCHANGED rateVars

GetSymbol == \E k \in Keys : Lookup(get_symbol(cache, file, k))

GetCurrencyName == \E k \in Keys : Lookup(get_currency_name(cache, file, k))

GetCurrencyCodeFromSymbol ==
    \E k \in Keys : Lookup(get_currency_code_from_symbol(cache, file, k))

NextCodes ==
    \/ FileChange
    \/ GetSymbol
    \/ GetCurrencyName
    \/ GetCurrencyCodeFromSymbol

SpecCodes == Init /\ [][NextCodes]_vars

(***************************************************************************)
(* Properties.                                                             *)
(***************************************************************************)
GetRatesCalled == op.name = "get_rates" \/ (op.name = "/base" /\ Len(op.args) >= 1)
GetRateCalled == op.name = "get_rate" \/ (op.name = "/pair" /\ Len(op.args) >= 2)
ConvertCalled == op.name = "convert"
Named(msg, code) == \E i \in 1..Len(msg) : msg[i] = code
SourceNotReadyFailure ==
    res.kind = "raise" /\ res.exc = "RatesNotAvailableError" /\ res.msg = SourceNotReady

\* C1: get_rate(base, base) returns 1 in the client's numeric mode (Decimal 1 with
\* force_decimal, float 1.0 without) and sends no HTTP request.
C1_GetRateSameCurrency ==
    (GetRateCalled /\ op.base_cur = op.dest_cur) =>
        /\ res.kind = "return"
        /\ res.sent = <<>>
        /\ res.value.kind = (IF client.force_decimal THEN "decimal" ELSE "float")
        /\ NumEq(res.value, PyInt(1))

C1_Witness ==
    /\ op.name = "get_rate" /\ op.base_cur = op.dest_cur
    /\ client.force_decimal /\ res.value.kind = "decimal"

C3_Original2xx ==
    /\ Len(res.sent) <= 1
    /\ ((GetRatesCalled \/ GetRateCalled \/ ConvertCalled)
            /\ res.response.transport = "ok") =>
        IF res.response.status \in 200..299
        THEN res.mode # "none" /\ ~SourceNotReadyFailure
        ELSE SourceNotReadyFailure /\ Len(res.sent) = 1

\* C3 amended: the boundary is status 200 exactly.  A response with any other
\* status, other 2xx codes included, fails with the 'source not ready'
\* RatesNotAvailable after the single request and without decoding the body;
\* status 200 goes on to decode the body; no call sends a second request.
C3_Status200 ==
    /\ Len(res.sent) <= 1
    /\ ((GetRatesCalled \/ GetRateCalled \/ ConvertCalled)
            /\ res.response.transport = "ok") =>
        IF res.response.status = 200
        THEN res.mode # "none" /\ ~SourceNotReadyFailure
        ELSE SourceNotReadyFailure /\ Len(res.sent) = 1 /\ res.mode = "none"

C3_Witness ==
    /\ ConvertCalled /\ res.response.transport = "ok"
    /\ res.response.status = 204
    /\ SourceNotReadyFailure /\ Len(res.sent) = 1

\* the conversion_rate field of the response body is zero, empty or missing
EmptyRateField ==
    LET b == res.response.body
    IN  /\ res.response.transport = "ok"
        /\ res.response.status = 200
        /\ b.valid
        /\ \/ "conversion_rate" \notin b.fields
           \/ b.conversion_rate.t \in {"null", "string"}
           \/ b.conversion_rate.t = "object" /\ Len(b.conversion_rate.items) = 0
           \/ b.conversion_rate.t \in {"int", "real"} /\ b.conversion_rate.num = 0

\* C4: with base != dest, status 200 and a conversion_rate that is zero, empty or
\* missing, get_rate raises RatesNotAvailable with a message naming base and dest
\* and returns nothing; convert raises RatesNotAvailable too, in both modes.
C4_EmptyRateFails ==
    /\ (GetRateCalled /\ op.base_cur # op.dest_cur /\ EmptyRateField) =>
          /\ res.kind = "raise"
          /\ res.exc = "RatesNotAvailableError"
          /\ Named(res.msg, op.base_cur) /\ Named(res.msg, op.dest_cur)
          /\ res.value = PyNone
    /\ (ConvertCalled /\ op.base_cur # op.dest_cur /\ EmptyRateField) =>
          /\ res.kind = "raise"
          /\ res.exc = "RatesNotAvailableError"
          /\ res.value = PyNone

C4_Witness ==
    /\ op.name = "get_rate" /\ op.base_cur = "USD" /\ op.dest_cur = "EUR"
    /\ EmptyRateField /\ res.response.body.conversion_rate = JsonInt(0)
    /\ "conversion_rate" \in res.response.body.fields
    /\ res.exc = "RatesNotAvailableError"

\* C5: building a client while EXCHANGE_RATE_API_KEY is unset raises
\* APIKeyNotFound, sends no request and yields no client; every request comes
\* from a client holding the key read at construction, and no call reports the
\* missing key.
C5_KeyAtConstruction ==
    /\ (op.name = "construct" /\ op.args = <<Unset>>) =>
          /\ res.kind = "raise" /\ res.exc = "APIKeyNotFoundError"
          /\ res.sent = <<>>
          /\ ~client.exists
    /\ client.exists => client.api_key # Unset
    /\ \A i \in 1..Len(res.sent) :
          /\ client.exists
          /\ res.sent[i].api_key = client.api_key
          /\ res.sent[i].api_key # Unset
    /\ op.name # "construct" => res.exc # "APIKeyNotFoundError"

C5_Witness ==
    /\ op.name = "construct" /\ op.args = <<Unset>>
    /\ res.exc = "APIKeyNotFoundError" /\ ~client.exists

\* C6: convert with base != dest, status 200 and a non-zero rate, for a float or
\* Decimal amount: the rate is decoded in decimal mode exactly when amount is a
\* Decimal or force_decimal is set; the call raises DecimalFloatMismatch exactly
\* when force_decimal is set and amount is a float; otherwise it returns
\* rate x amount in the active mode.
C6_DecimalMismatch ==
    LET b == res.response.body
        dec == op.amount.kind = "decimal" \/ client.force_decimal
        mismatch == client.force_decimal /\ op.amount.kind = "float"
    IN  (/\ ConvertCalled /\ op.base_cur # op.dest_cur
         /\ res.response.transport = "ok" /\ res.response.status = 200
         /\ b.valid /\ "conversion_rate" \in b.fields
         /\ b.conversion_rate.t \in {"int", "real"} /\ b.conversion_rate.num # 0
         /\ op.amount.kind \in {"float", "decimal"}) =>
            /\ (res.mode = "decimal") <=> dec
            /\ (res.kind = "raise" /\ res.exc = "DecimalFloatMismatchError") <=> mismatch
            /\ ~mismatch =>
                  /\ res.kind = "return"
                  /\ res.value.kind = (IF dec THEN "decimal" ELSE "float")
                  /\ res.value.num * (b.conversion_rate.den * op.amount.den)
                        = (b.conversion_rate.num * op.amount.num) * res.value.den

\* C8: the /base reply has one rate line for exactly the keys of the mapping
\* get_rates returned that are in {TWD, CNY, EUR, USD, JPY, GBP, KRW}: none for
\* another key, none missing, none twice, in the mapping's iteration order.
AllowList == {"TWD", "CNY", "EUR", "USD", "JPY", "GBP", "KRW"}
PosIn(items, code) == CHOOSE i \in 1..Len(items) : items[i][1] = code
C8_BaseReplyLines ==
    (GetRatesCalled /\ op.name = "/base" /\ res.kind = "return") =>
        /\ Len(chat.sent) = 1
        /\ LET items == res.value.items
               lines == chat.sent[1].lines
           IN  /\ \A i \in 1..Len(lines) :
                     /\ lines[i][1] \in AllowList
                     /\ \E j \in 1..Len(items) : items[j] = lines[i]
               /\ \A j \in 1..Len(items) :
                     items[j][1] \in AllowList =>
                        \E i \in 1..Len(lines) : lines[i][1] = items[j][1]
               /\ \A i, k \in 1..Len(lines) :
                     i < k => /\ lines[i][1] # lines[k][1]
                              /\ PosIn(items, lines[i][1]) < PosIn(items, lines[k][1])

C8_Witness ==
    /\ op.name = "/base" /\ res.kind = "return"
    /\ Len(res.value.items) = 3
    /\ res.value.items[1][1] = "TWD"
    /\ res.value.items[2][1] = "XYZ"
    /\ res.value.items[3][1] = "EUR"
    /\ Len(chat.sent[1].lines) = 2

KeyField(name) == IF name = "get_currency_code_from_symbol" THEN "symbol" ELSE "cc"
ValueField(name) ==
    CASE name = "get_symbol" -> "symbol"
      [] name = "get_currency_name" -> "name"
      [] OTHER -> "cc"

\* C7: a lookup returns the symbol / name / cc of the first record of the loaded
\* dataset whose cc (or symbol) equals the key, and null when no record matches;
\* the result is a function of the dataset and the key alone.
C7_FirstMatch ==
    (look.name # "none" /\ ~look.raised) =>
        LET data == cache.records
            m == {i \in 1..Len(data) : data[i][KeyField(look.name)] = look.key}
        IN  /\ cache.loaded
            /\ look.found <=> m # {}
            /\ m = {} => look.value = ""
            /\ m # {} =>
                  \E i \in m : /\ \A j \in m : i <= j
                               /\ look.value = data[i][ValueField(look.name)]

C7_Witness ==
    /\ look.name = "get_symbol" /\ look.key = "USD" /\ look.found
    /\ Len(cache.records) = 2
    /\ cache.records[1] = Record("USD", "US$", "United States Dollar")
    /\ cache.records[2] = Record("USD", "$", "US Dollar")
    /\ look.value = "US$"

\* C9: the dataset file is not read before the first lookup and is read during
\* it; once a load has succeeded no later lookup reads the file and the cached
\* records never change, so the file is loaded at most once.
C9_LoadedOnce ==
    /\ [](look.name = "none" <=> reads = 0)
    /\ [](look.name = "none" => ~cache.loaded)
    /\ [](loads <= 1)
    /\ [][cache.loaded => (cache' = cache /\ reads' = reads /\ loads' = loads)]_vars

C9_Witness ==
    /\ cache.loaded /\ look.name # "none" /\ ~look.read
    /\ file.state = "array" /\ file.records # cache.records
    /\ reads = 1 /\ loads = 1

====
